---- MODULE Spec2Model ----
(***************************************************************************)
(* Model of cli.py, the repo-local helper of n00plicate.                   *)
(*                                                                         *)
(* One run of the tool is a short sequential process: parse the argument   *)
(* list with argparse, dispatch on args.command, then either list the      *)
(* directories under <root>/packages or run `git status -sb` and wait for  *)
(* it.  Text is modelled as sequences of code points so that f"- {name}"   *)
(* and the ordering used by sorted() are computed, not assumed.            *)
(***************************************************************************)
EXTENDS Integers, Sequences, FiniteSets, TLC

VARIABLES argv, fs, pc, command, enumerated, listed,
          stdout, stderr, exitCode,
          gitState, returncode, gitOut, gitErr,
          run, prevStdout, prevEnumerated

vars == <<argv, fs, pc, command, enumerated, listed, stdout, stderr, exitCode,
          gitState, returncode, gitOut, gitErr, run, prevStdout,
          prevEnumerated>>

----------------------------------------------------------------------------
(* Bounds of the model.                                                    *)

\* Most command-line tokens after the program name.
MaxArgs == 2
\* Most immediate children of <root>/packages.
MaxChildren == 3
\* Most chunks of text the git subprocess writes before it exits.
MaxGitChunks == 2

----------------------------------------------------------------------------
(* Text constants, as code points.                                         *)

\* "packages"
CmdPackages == <<112, 97, 99, 107, 97, 103, 101, 115>>
\* "status"
CmdStatus == <<115, 116, 97, 116, 117, 115>>
\* "foo", a token that is no subcommand
TokFoo == <<102, 111, 111>>
\* "-h"
TokHelp == <<45, 104>>
\* "--help"
TokLongHelp == <<45, 45, 104, 101, 108, 112>>
\* args.command when no subcommand was parsed (Python's None)
None == <<>>

\* The subcommands registered with add_parser.
Choices == {CmdPackages, CmdStatus}
\* The option strings argparse registers by itself (add_help=True).
OptionStrings == {TokHelp, TokLongHelp}
\* The tokens command lines are drawn from.
Tokens == {CmdPackages, CmdStatus, TokFoo, TokHelp}

\* "No packages directory found."
NoPackagesMsg == <<78, 111, 32, 112, 97, 99, 107, 97, 103, 101, 115, 32, 100, 105, 114, 101, 99, 116, 111, 114, 121, 32, 102, 111, 117, 110, 100, 46>>
\* "- "
ListPrefix == <<45, 32>>
\* "usage: cli.py [-h] {packages,status} ..."
UsageLine == <<117, 115, 97, 103, 101, 58, 32, 99, 108, 105, 46, 112, 121, 32, 91, 45, 104, 93, 32, 123, 112, 97, 99, 107, 97, 103, 101, 115, 44, 115, 116, 97, 116, 117, 115, 125, 32, 46, 46, 46>>
\* "usage: cli.py packages [-h]"
UsagePackages == <<117, 115, 97, 103, 101, 58, 32, 99, 108, 105, 46, 112, 121, 32, 112, 97, 99, 107, 97, 103, 101, 115, 32, 91, 45, 104, 93>>
\* "usage: cli.py status [-h]"
UsageStatus == <<117, 115, 97, 103, 101, 58, 32, 99, 108, 105, 46, 112, 121, 32, 115, 116, 97, 116, 117, 115, 32, 91, 45, 104, 93>>
\* "n00plicate helper CLI"
Description == <<110, 48, 48, 112, 108, 105, 99, 97, 116, 101, 32, 104, 101, 108, 112, 101, 114, 32, 67, 76, 73>>
\* "cli.py: error: "
ErrorPrefix == <<99, 108, 105, 46, 112, 121, 58, 32, 101, 114, 114, 111, 114, 58, 32>>
\* "the following arguments are required: command"
MsgRequired == <<116, 104, 101, 32, 102, 111, 108, 108, 111, 119, 105, 110, 103, 32, 97, 114, 103, 117, 109, 101, 110, 116, 115, 32, 97, 114, 101, 32, 114, 101, 113, 117, 105, 114, 101, 100, 58, 32, 99, 111, 109, 109, 97, 110, 100>>
\* "argument command: invalid choice: "
MsgInvalidChoice == <<97, 114, 103, 117, 109, 101, 110, 116, 32, 99, 111, 109, 109, 97, 110, 100, 58, 32, 105, 110, 118, 97, 108, 105, 100, 32, 99, 104, 111, 105, 99, 101, 58, 32>>
\* " (choose from 'packages', 'status')"
MsgChooseFrom == <<32, 40, 99, 104, 111, 111, 115, 101, 32, 102, 114, 111, 109, 32, 39, 112, 97, 99, 107, 97, 103, 101, 115, 39, 44, 32, 39, 115, 116, 97, 116, 117, 115, 39, 41>>
\* "unrecognized arguments: "
MsgUnrecognized == <<117, 110, 114, 101, 99, 111, 103, 110, 105, 122, 101, 100, 32, 97, 114, 103, 117, 109, 101, 110, 116, 115, 58, 32>>
\* "'"
Quote == <<39>>
\* " "
Space == <<32>>
\* "Traceback (most recent call last):"
TracebackLine == <<84, 114, 97, 99, 101, 98, 97, 99, 107, 32, 40, 109, 111, 115, 116, 32, 114, 101, 99, 101, 110, 116, 32, 99, 97, 108, 108, 32, 108, 97, 115, 116, 41, 58>>
\* "NotADirectoryError"
NotADirectoryError == <<78, 111, 116, 65, 68, 105, 114, 101, 99, 116, 111, 114, 121, 69, 114, 114, 111, 114>>
\* "FileNotFoundError"
FileNotFoundError == <<70, 105, 108, 101, 78, 111, 116, 70, 111, 117, 110, 100, 69, 114, 114, 111, 114>>
\* "subprocess.CalledProcessError"
CalledProcessError == <<115, 117, 98, 112, 114, 111, 99, 101, 115, 115, 46, 67, 97, 108, 108, 101, 100, 80, 114, 111, 99, 101, 115, 115, 69, 114, 114, 111, 114>>

----------------------------------------------------------------------------
(* The filesystem under <root>/packages.                                   *)

\* Names of entries: "a", "b", "ab", "B".
Names == {<<97>>, <<98>>, <<97, 98>>, <<66>>}
\* Name of an entry nested inside a child directory: "c".
NestedNames == {<<99>>}

\* What one child of packages can be: a file, or a directory holding
\* some nested directories.
ChildKinds ==
  {[kind |-> "file", sub |-> {}]} \cup
  {[kind |-> "dir", sub |-> s] : s \in SUBSET NestedNames}

\* Every state of <root>/packages: absent, a regular file, or a directory
\* with at most MaxChildren children.
FileSystems ==
  {[packages |-> "absent", entries |-> <<>>],
   [packages |-> "file", entries |-> <<>>]} \cup
  UNION {{[packages |-> "dir", entries |-> e] : e \in [D -> ChildKinds]} :
         D \in {X \in SUBSET Names : Cardinality(X) <= MaxChildren}}

exists_always(f) == TRUE

exists_as_is_dir(f) == f.packages = "dir"

\* Path.exists() of <root>/packages
exists(f) == f.packages # "absent"

is_dir_any(f, name) == TRUE

\* Path.is_dir() of the child called name
is_dir(f, name) == f.entries[name].kind = "dir"

\* All orders in which os.listdir may yield the members of S.
Perms(S) ==
  {s \in [1..Cardinality(S) -> S] : \A i, j \in DOMAIN s : i # j => s[i] # s[j]}

\* Path.iterdir() of <root>/packages: the children, in some order.
iterdir(f) == Perms(DOMAIN f.entries)

\* The exception iterdir raises when packages is no directory, else None.
iterdir_error(f) ==
  CASE f.packages = "absent" -> FileNotFoundError
    [] f.packages = "file" -> NotADirectoryError
    [] OTHER -> None

----------------------------------------------------------------------------
(* sorted() over sibling paths: Path.__lt__ compares the parts, which      *)
(* differ in the last one only, by str.__lt__ (code point by code point).  *)

RECURSIVE StrLess(_, _)
StrLess(a, b) ==
  IF b = <<>> THEN FALSE
  ELSE IF a = <<>> THEN TRUE
  ELSE IF Head(a) # Head(b) THEN Head(a) < Head(b)
  ELSE StrLess(Tail(a), Tail(b))

RECURSIVE Insert(_, _)
Insert(x, s) ==
  IF s = <<>> THEN <<x>>
  ELSE IF StrLess(x, Head(s)) THEN <<x>> \o s
  ELSE <<Head(s)>> \o Insert(x, Tail(s))

RECURSIVE InsertionSort(_)
InsertionSort(s) ==
  IF s = <<>> THEN <<>> ELSE Insert(s[Len(s)], InsertionSort(SubSeq(s, 1, Len(s) - 1)))

unsorted(s) == s

sorted(s) == InsertionSort(s)

\* f"- {pkg.name}"
FormatLine(name) == ListPrefix \o name

RECURSIVE PrintDirs(_, _)
\* The loop of list_packages over the sequence s of children.
PrintDirs(f, s) ==
  IF s = <<>> THEN <<>>
  ELSE (IF is_dir(f, Head(s)) THEN <<FormatLine(Head(s))>> ELSE <<>>)
       \o PrintDirs(f, Tail(s))

----------------------------------------------------------------------------
(* argparse, for the parser main() builds: the option -h/--help that       *)
(* argparse adds by itself and one subparsers action, dest "command",      *)
(* with the choices packages and status, neither taking any argument.      *)

RECURSIVE Join(_)
\* " ".join(s)
Join(s) ==
  IF s = <<>> THEN <<>>
  ELSE IF Len(s) = 1 THEN s[1]
  ELSE s[1] \o Space \o Join(Tail(s))

\* parser.format_help(): the usage line, a blank line and the description
\* (the listing of the arguments that follows is left out).
MainHelp == <<UsageLine, <<>>, Description>>

\* format_help() of a subcommand's parser, its usage line.
SubHelp(cmd) == IF cmd = CmdPackages THEN <<UsagePackages>> ELSE <<UsageStatus>>

\* parse_args returned a namespace whose command is cmd.
ParseOk(cmd) ==
  [kind |-> "ok", command |-> cmd, out |-> <<>>, err |-> <<>>, code |-> 0]

\* The help action: print_help() to stdout, then parser.exit(), status 0.
ParseHelp(text) ==
  [kind |-> "exit", command |-> None, out |-> text, err |-> <<>>, code |-> 0]

\* parser.error(msg): print_usage() and the message to stderr, exit status 2.
ParseError(msg) ==
  [kind |-> "exit", command |-> None, out |-> <<>>,
   err |-> <<UsageLine, ErrorPrefix \o msg>>, code |-> 2]

\* The parser of the chosen subcommand over the tokens after it: -h prints
\* its help and exits; any other token is an unrecognized argument.
SubParse(cmd, rest) ==
  IF \E i \in DOMAIN rest : rest[i] \in OptionStrings THEN ParseHelp(SubHelp(cmd))
  ELSE IF rest # <<>> THEN ParseError(MsgUnrecognized \o Join(rest))
  ELSE ParseOk(cmd)

\* parser.parse_args() over the tokens args, the subcommand being required
\* or not.
ParseWith(args, required) ==
  IF args = <<>> THEN
    (IF required THEN ParseError(MsgRequired) ELSE ParseOk(None))
  ELSE IF Head(args) \in OptionStrings THEN ParseHelp(MainHelp)
  ELSE IF Head(args) \notin Choices THEN
    ParseError(MsgInvalidChoice \o Quote \o Head(args) \o Quote \o MsgChooseFrom)
  ELSE SubParse(Head(args), Tail(args))

parse_args_optional(args) == ParseWith(args, FALSE)

\* add_subparsers(dest="command", required=True); parser.parse_args()
parse_args(args) == ParseWith(args, TRUE)

----------------------------------------------------------------------------
(* The state of one run.                                                   *)

\* The command lines: at most MaxArgs tokens.
ArgLists == UNION {[1..n -> Tokens] : n \in 0..MaxArgs}

\* What the git subprocess may write: "## main", " M cli.py" to its
\* standard output, "fatal: not a git repository" to its standard error.
GitStdoutTexts == {<<35, 35, 32, 109, 97, 105, 110>>, <<32, 77, 32, 99, 108, 105, 46, 112, 121>>}
GitStderrTexts == {<<102, 97, 116, 97, 108, 58, 32, 110, 111, 116, 32, 97, 32, 103, 105, 116, 32, 114, 101, 112, 111, 115, 105, 116, 111, 114, 121>>}
\* Popen.returncode of a finished child: its exit status, or minus the
\* number of the signal that killed it.
GitReturnCodes == {0, 1, 128, -15}

Init ==
  /\ argv \in ArgLists
  /\ fs \in FileSystems
  /\ pc = "parse"
  /\ command = None
  /\ enumerated = <<>>
  /\ listed = FALSE
  /\ stdout = <<>>
  /\ stderr = <<>>
  /\ exitCode = <<>>
  /\ gitState = "none"
  /\ returncode = <<>>
  /\ gitOut = <<>>
  /\ gitErr = <<>>
  /\ run = 1
  /\ prevStdout = <<>>
  /\ prevEnumerated = <<>>

gitVars == <<gitState, returncode, gitOut, gitErr>>
runVars == <<run, prevStdout, prevEnumerated>>

\* An exception nothing catches: the interpreter prints the traceback to
\* stderr and the process ends with status 1.
Raise(exc) ==
  /\ stderr' = stderr \o <<TracebackLine, exc>>
  /\ exitCode' = <<1>>
  /\ pc' = "done"

----------------------------------------------------------------------------
(* The steps of main().                                                    *)

\* args = parser.parse_args(): either a namespace, or SystemExit from
\* inside argparse after it wrote its help or its diagnostic.
ParseArgs ==
  /\ pc = "parse"
  /\ LET r == parse_args(argv) IN
       /\ stdout' = stdout \o r.out
       /\ stderr' = stderr \o r.err
       /\ IF r.kind = "ok"
            THEN /\ command' = r.command
                 /\ pc' = "dispatch"
                 /\ exitCode' = exitCode
            ELSE /\ command' = command
                 /\ pc' = "done"
                 /\ exitCode' = <<r.code>>
  /\ UNCHANGED <<argv, fs, enumerated, listed, gitVars, runVars>>

DispatchSwapped ==
  /\ pc = "dispatch"
  /\ IF command = CmdStatus
       THEN pc' = "list_packages" /\ UNCHANGED <<stdout, exitCode>>
     ELSE IF command = CmdPackages
       THEN pc' = "popen" /\ UNCHANGED <<stdout, exitCode>>
     ELSE /\ stdout' = stdout \o MainHelp
          /\ exitCode' = <<1>>
          /\ pc' = "done"
  /\ UNCHANGED <<argv, fs, command, enumerated, listed, stderr, gitVars, runVars>>

\* if args.command == "packages" / elif "status" / else print_help, return 1
Dispatch ==
  /\ pc = "dispatch"
  /\ IF command = CmdPackages
       THEN pc' = "list_packages" /\ UNCHANGED <<stdout, exitCode>>
     ELSE IF command = CmdStatus
       THEN pc' = "popen" /\ UNCHANGED <<stdout, exitCode>>
     ELSE /\ stdout' = stdout \o MainHelp
          /\ exitCode' = <<1>>
          /\ pc' = "done"
  /\ UNCHANGED <<argv, fs, command, enumerated, listed, stderr, gitVars, runVars>>

----------------------------------------------------------------------------
(* list_packages()                                                         *)

\* What list_packages does to everything but the filesystem: the message
\* when packages does not exist, the exception of iterdir when it is no
\* directory, else one line per child directory of the sorted enumeration.
ListPackagesBody ==
  /\ pc = "list_packages"
  /\ listed' = TRUE
  /\ IF ~exists(fs) THEN
       /\ stdout' = Append(stdout, NoPackagesMsg)
       /\ pc' = "return"
       /\ UNCHANGED <<stderr, exitCode, enumerated>>
     ELSE IF iterdir_error(fs) # None THEN
       /\ Raise(iterdir_error(fs))
       /\ UNCHANGED <<stdout, enumerated>>
     ELSE
       \E order \in iterdir(fs) :
         /\ enumerated' = order
         /\ stdout' = stdout \o PrintDirs(fs, sorted(order))
         /\ pc' = "return"
         /\ UNCHANGED <<stderr, exitCode>>
  /\ UNCHANGED <<argv, command, gitVars, runVars>>

ListPackagesMkdir ==
  /\ ListPackagesBody
  /\ fs' = IF exists(fs) THEN fs ELSE [packages |-> "dir", entries |-> <<>>]

\* list_packages reads the filesystem and writes nothing to it.
ListPackages ==
  /\ ListPackagesBody
  /\ fs' = fs

----------------------------------------------------------------------------
(* subprocess.run(["git", "status", "-sb"], check=True, cwd=REPO_ROOT)     *)

\* Popen: the child starts, or the executable cannot be launched and
\* FileNotFoundError leaves main().
SubprocessPopen ==
  /\ pc = "popen"
  /\ \/ /\ gitState' = "running"
        /\ pc' = "wait"
        /\ UNCHANGED <<stderr, exitCode>>
     \/ /\ gitState' = "nolaunch"
        /\ Raise(FileNotFoundError)
  /\ UNCHANGED <<argv, fs, command, enumerated, listed, stdout,
                 returncode, gitOut, gitErr, runVars>>

GitWriteCaptured ==
  /\ gitState = "running"
  /\ Len(gitOut) + Len(gitErr) < MaxGitChunks
  /\ \/ \E t \in GitStdoutTexts :
          gitOut' = Append(gitOut, t) /\ UNCHANGED <<gitErr, stdout, stderr>>
     \/ \E t \in GitStderrTexts :
          gitErr' = Append(gitErr, t) /\ UNCHANGED <<gitOut, stdout, stderr>>
  /\ UNCHANGED <<argv, fs, pc, command, enumerated, listed, exitCode,
                 gitState, returncode, runVars>>

\* The child writes to the standard output and standard error it inherited
\* from the tool (run() passes no stdout=, stderr= or capture_output=).
GitWrite ==
  /\ gitState = "running"
  /\ Len(gitOut) + Len(gitErr) < MaxGitChunks
  /\ \/ \E t \in GitStdoutTexts :
          /\ gitOut' = Append(gitOut, t)
          /\ stdout' = Append(stdout, t)
          /\ UNCHANGED <<gitErr, stderr>>
     \/ \E t \in GitStderrTexts :
          /\ gitErr' = Append(gitErr, t)
          /\ stderr' = Append(stderr, t)
          /\ UNCHANGED <<gitOut, stdout>>
  /\ UNCHANGED <<argv, fs, pc, command, enumerated, listed, exitCode,
                 gitState, returncode, runVars>>

\* The child ends, with an exit status or killed by a signal.
GitExit ==
  /\ gitState = "running"
  /\ \E c \in GitReturnCodes : returncode' = <<c>>
  /\ gitState' = "exited"
  /\ UNCHANGED <<argv, fs, pc, command, enumerated, listed, stdout, stderr,
                 exitCode, gitOut, gitErr, runVars>>

\* run() after Popen: communicate() returns once the child has ended; with
\* check set, a returncode other than 0 raises CalledProcessError.
RunWait(check) ==
  /\ pc = "wait"
  /\ gitState = "exited"
  /\ IF check /\ returncode[1] # 0
       THEN Raise(CalledProcessError)
       ELSE pc' = "return" /\ UNCHANGED <<stderr, exitCode>>
  /\ UNCHANGED <<argv, fs, command, enumerated, listed, stdout, gitVars, runVars>>

SubprocessWaitUnchecked == RunWait(FALSE)

SubprocessNoWait ==
  /\ pc = "wait"
  /\ pc' = "return"
  /\ UNCHANGED <<argv, fs, command, enumerated, listed, stdout, stderr,
                 exitCode, gitVars, runVars>>

SubprocessWait == RunWait(TRUE)

----------------------------------------------------------------------------
(* The end of main() and the next invocation.                              *)

\* return 0; raise SystemExit(main())
ReturnZero ==
  /\ pc = "return"
  /\ exitCode' = <<0>>
  /\ pc' = "done"
  /\ UNCHANGED <<argv, fs, command, enumerated, listed, stdout, stderr,
                 gitVars, runVars>>

\* The packages listing is run a second time, as a fresh process with the
\* same command line over the same filesystem; the output of the first run
\* and the order its enumeration came in are kept for comparison.
Reinvoke ==
  /\ pc = "done"
  /\ run = 1
  /\ command = CmdPackages
  /\ run' = 2
  /\ prevStdout' = stdout
  /\ prevEnumerated' = enumerated
  /\ pc' = "parse"
  /\ command' = None
  /\ enumerated' = <<>>
  /\ listed' = FALSE
  /\ stdout' = <<>>
  /\ stderr' = <<>>
  /\ exitCode' = <<>>
  /\ gitState' = "none"
  /\ returncode' = <<>>
  /\ gitOut' = <<>>
  /\ gitErr' = <<>>
  /\ UNCHANGED <<argv, fs>>

Next ==
  \/ ParseArgs
  \/ Dispatch
  \/ ListPackages
  \/ SubprocessPopen
  \/ GitWrite
  \/ GitExit
  \/ SubprocessWait
  \/ ReturnZero
  \/ Reinvoke

Spec == Init /\ [][Next]_vars

----------------------------------------------------------------------------
(* Vocabulary of the properties.                                           *)

\* The run has ended (SystemExit, from main, argparse or an exception).
Done == pc = "done"

\* The argument list is empty.
NoSubcommand == argv = <<>>

\* The first argument is neither a subcommand nor the help option.
UnsupportedToken ==
  /\ argv # <<>>
  /\ Head(argv) \notin Choices
  /\ Head(argv) \notin OptionStrings

\* The children of <root>/packages that are directories.
DirChildren == {n \in DOMAIN fs.entries : fs.entries[n].kind = "dir"}

\* a comes before b in lexicographic order: at the first position where
\* they differ a has the smaller code point, or a ends there and b goes on.
LexBefore(a, b) ==
  \E k \in 1..(Len(b)) :
    /\ k <= Len(a) + 1
    /\ \A i \in 1..(k - 1) : a[i] = b[i]
    /\ (k = Len(a) + 1 \/ a[k] < b[k])

\* The name printed on the line l.
NameOf(l) == SubSeq(l, Len(ListPrefix) + 1, Len(l))

\* The sequence s is not in ascending order.
OutOfOrder(s) == \E i, j \in DOMAIN s : i < j /\ LexBefore(s[j], s[i])

\* s starts with the text p.
StartsWith(s, p) == Len(s) >= Len(p) /\ SubSeq(s, 1, Len(p)) = p

----------------------------------------------------------------------------
\* C1: over an existing packages directory, the packages subcommand prints
\* exactly one line "- <name>" per immediate child that is a directory, in
\* ascending lexicographic order of the names, and nothing else (no files,
\* no nested entries; no line at all for an empty directory), then exits 0.
C1_ListsDirectoriesSorted ==
  (Done /\ command = CmdPackages /\ fs.packages = "dir") =>
    /\ exitCode = <<0>>
    /\ Len(stdout) = Cardinality(DirChildren)
    /\ \A i \in DOMAIN stdout :
         /\ StartsWith(stdout[i], ListPrefix)
         /\ NameOf(stdout[i]) \in DirChildren
    /\ \A i, j \in DOMAIN stdout :
         i < j => LexBefore(NameOf(stdout[i]), NameOf(stdout[j]))

\* A listing of two directories that were enumerated out of order, next to
\* a file and with a directory nested one level down.
C1_Witness ==
  /\ Done /\ command = CmdPackages /\ fs.packages = "dir"
  /\ Len(stdout) = 2
  /\ OutOfOrder(SelectSeq(enumerated, LAMBDA n : n \in DirChildren))
  /\ \E n \in DOMAIN fs.entries : fs.entries[n].kind = "file"
  /\ \E n \in DirChildren : fs.entries[n].sub # {}

\* C2 as stated: with no subcommand or an unsupported token the tool puts
\* a help message on standard output and ends with exit code 1.
C2_HelpOnStdoutExit1 ==
  (Done /\ (NoSubcommand \/ UnsupportedToken)) =>
    /\ exitCode = <<1>>
    /\ stdout # <<>>
    /\ stdout[1] = UsageLine

\* C2 amended: with no argument at all, or a first argument that is neither
\* a subcommand nor the help option, argparse writes the usage line and an
\* error line to standard error, nothing reaches standard output and the
\* tool ends with exit code 2.
C2_UsageOnStderrExit2 ==
  (Done /\ (NoSubcommand \/ UnsupportedToken)) =>
    /\ exitCode = <<2>>
    /\ stdout = <<>>
    /\ Len(stderr) = 2
    /\ stderr[1] = UsageLine
    /\ StartsWith(stderr[2], ErrorPrefix)

\* A run without any argument has ended on the parser's diagnostic.
C2_Witness ==
  /\ Done /\ NoSubcommand
  /\ stderr = <<UsageLine, ErrorPrefix \o MsgRequired>>

\* C3: when git ends with a status other than 0, or cannot be launched,
\* the status subcommand does not end with exit status 0.
C3_GitFailurePropagates ==
  (Done /\ command = CmdStatus
        /\ (gitState = "nolaunch" \/ (gitState = "exited" /\ returncode # <<0>>))) =>
    /\ exitCode # <<0>>
    /\ exitCode # <<>>

\* git ended with status 128 and the run ended on the exception.
C3_Witness ==
  /\ Done /\ command = CmdStatus
  /\ gitState = "exited" /\ returncode = <<128>>
  /\ exitCode = <<1>>

\* C4: when <root>/packages does not exist, the packages subcommand prints
\* the single line "No packages directory found." and the tool exits 0.
C4_MissingDirectoryMessage ==
  (Done /\ command = CmdPackages /\ fs.packages = "absent") =>
    /\ stdout = <<NoPackagesMsg>>
    /\ stderr = <<>>
    /\ exitCode = <<0>>

\* The packages subcommand has ended over a root without packages.
C4_Witness ==
  /\ Done /\ command = CmdPackages /\ fs.packages = "absent"
  /\ listed
  /\ Len(stdout) = 1

\* C5: a run performs at most one action, the one its subcommand names:
\* the listing only for packages, the git subprocess only for status; with
\* a missing or unsupported subcommand neither runs, nothing is written to
\* standard output and the exit code is not 0.
C5_OneActionPerRun ==
  /\ listed => command = CmdPackages
  /\ gitState # "none" => command = CmdStatus
  /\ ~(listed /\ gitState # "none")
  /\ (NoSubcommand \/ UnsupportedToken) =>
       /\ ~listed
       /\ gitState = "none"
       /\ stdout = <<>>
       /\ Done => (exitCode # <<0>> /\ exitCode # <<>>)

\* The run of `foo` has ended.
C5_Witness ==
  /\ Done
  /\ argv = <<TokFoo>>
  /\ exitCode = <<2>>

\* C6: when git ends with status 0 after writing the text T, the output of
\* the tool is exactly T (on each stream) and the tool exits 0.
C6_StatusPassThrough ==
  (Done /\ gitState = "exited" /\ returncode = <<0>>) =>
    /\ stdout = gitOut
    /\ stderr = gitErr
    /\ exitCode = <<0>>

\* git wrote two chunks to its standard output, ended with 0, and the run
\* has ended.
C6_Witness ==
  /\ Done /\ gitState = "exited" /\ returncode = <<0>>
  /\ Len(gitOut) = 2
  /\ exitCode = <<0>>

\* C7: no step of a run changes the filesystem.
C7_NoFilesystemMutation == [][fs' = fs]_vars

\* The listing has run over a root without packages, and packages is still
\* absent.
C7_Witness ==
  /\ Done /\ listed
  /\ fs.packages = "absent"
  /\ run = 2

\* C8: two runs of the packages listing over the same filesystem print the
\* same lines, whatever order the children are enumerated in.
C8_ListingDeterministic ==
  (Done /\ run = 2 /\ listed) => stdout = prevStdout

\* Two listings of the same two directories whose enumerations came in
\* different orders.
C8_Witness ==
  /\ Done /\ run = 2 /\ listed
  /\ enumerated # prevEnumerated
  /\ Len(stdout) = 2
  /\ Cardinality(DOMAIN fs.entries) = 2

\* C9: the tool goes past subprocess.run, and ends, only after the git
\* process it launched has ended.
C9_WaitsForGit ==
  (pc \in {"return", "done"} /\ gitState \notin {"none", "nolaunch"}) =>
    /\ gitState = "exited"
    /\ returncode # <<>>

\* The status run has ended after git did.
C9_Witness ==
  /\ Done /\ command = CmdStatus
  /\ gitState = "exited"
  /\ Len(gitOut) + Len(gitErr) = MaxGitChunks

\* C10: when <root>/packages exists and is no directory, the packages
\* subcommand prints nothing to standard output; the enumeration raises
\* NotADirectoryError and the tool ends with a non-zero exit status.
C10_NotADirectoryFails ==
  (Done /\ command = CmdPackages /\ fs.packages = "file") =>
    /\ stdout = <<>>
    /\ stderr = <<TracebackLine, NotADirectoryError>>
    /\ exitCode # <<0>>
    /\ exitCode # <<>>

\* The packages subcommand has ended over a packages that is a file.
C10_Witness ==
  /\ Done /\ command = CmdPackages /\ fs.packages = "file"
  /\ listed
  /\ exitCode = <<1>>

====
